---- MODULE Spec2Model ----
(***************************************************************************)
(* Merge-queue monitor: the snapshot metric pipeline.                      *)
(*                                                                         *)
(*   generate_csv.py         parse_timestamp, calculate_ci_runtime,        *)
(*                           calculate_queue_clear_time, process_json_file,*)
(*                           generate_csv                                  *)
(*   merge_queue_monitor.py  MergeQueueMonitor.get_merge_queue_entries,    *)
(*                           process_check_runs, export_to_json            *)
(*                                                                         *)
(* Strings are sequences of one-character strings, so that endswith, `in`, *)
(* replace, `<` on strings and datetime.fromisoformat act on the           *)
(* characters as the Python code does.  A Python float that results from   *)
(* dividing a duration is kept exact as (n + us/10^6) / den.               *)
(***************************************************************************)
EXTENDS Integers, Sequences, FiniteSets, TLC

VARIABLES
    ts_in,        \* parse_timestamp: the argument iso_timestamp
    ts_out,       \* parse_timestamp: <<>> before the call, then <<what it produced>>
    head_commit,  \* process_check_runs: the argument head_commit
    check_status, \* process_check_runs: <<>> before the call, then <<the aggregate>>
    files,        \* generate_csv: json_files, the sorted stats files (their parsed contents)
    pc,           \* generate_csv: position in the function
    idx,          \* generate_csv: number of json_files the loop has processed
    rows,         \* generate_csv: rows
    csv_file,     \* generate_csv: the rows written to output_file (<<>> while unwritten)
    stats,        \* generate_csv: the summary statistics printed
    polls         \* export_to_json: the runs so far, each [response, now, written]

vars ==
    <<ts_in, ts_out, head_commit, check_status, files, pc, idx, rows, csv_file, stats, polls>>

(* JSON values.  A field of a JSON object is [k, v]: k says whether the key  *)
(* is missing ("absent"), holds null ("null") or holds a value, and v is    *)
(* the value (a filler of the same kind when there is none).               *)
JAbsentInt == [k |-> "absent", v |-> 0]
JNullInt == [k |-> "null", v |-> 0]
JInt(n) == [k |-> "int", v |-> n]

JAbsentStr == [k |-> "absent", v |-> <<>>]
JNullStr == [k |-> "null", v |-> <<>>]
JStr(s) == [k |-> "str", v |-> s]

\* dict.get(key): a missing key reads as None
Get(field) == IF field.k = "absent" THEN [field EXCEPT !.k = "null"] ELSE field

\* `not x` for x = dict.get(key) of a string field: None and "" are falsy
Falsy(field) == field.k \in {"absent", "null"} \/ field.v = <<>>

-----------------------------------------------------------------------------
(* Characters and Python str operations                                    *)

DigitChar == <<"0", "1", "2", "3", "4", "5", "6", "7", "8", "9">>

IsDigit(c) == \E d \in 1..10 : DigitChar[d] = c

DigitVal(c) == (CHOOSE d \in 1..10 : DigitChar[d] = c) - 1

\* ord(c) for the characters that occur in the timestamps of the model.
Ord(c) ==
    IF IsDigit(c) THEN 48 + DigitVal(c)
    ELSE CASE c = " " -> 32
           [] c = "+" -> 43
           [] c = "-" -> 45
           [] c = "." -> 46
           [] c = ":" -> 58
           [] c = "T" -> 84
           [] c = "Z" -> 90
           [] OTHER   -> 120

\* str.endswith(suffix)
EndsWith(s, suffix) ==
    /\ Len(suffix) <= Len(s)
    /\ SubSeq(s, Len(s) - Len(suffix) + 1, Len(s)) = suffix

\* c in s, for a single character c
Contains(s, c) == \E i \in 1..Len(s) : s[i] = c

\* str.replace(c, by): every occurrence of the character c becomes the string by
RECURSIVE Replace(_, _, _)
Replace(s, c, by) ==
    IF s = <<>> THEN <<>>
    ELSE (IF Head(s) = c THEN by ELSE <<Head(s)>>) \o Replace(Tail(s), c, by)

\* a < b on Python strings: lexicographic by code point, a proper prefix is smaller
RECURSIVE StrLess(_, _)
StrLess(a, b) ==
    IF b = <<>> THEN FALSE
    ELSE IF a = <<>> THEN TRUE
    ELSE IF Head(a) /= Head(b) THEN Ord(Head(a)) < Ord(Head(b))
    ELSE StrLess(Tail(a), Tail(b))

-----------------------------------------------------------------------------
(* datetime                                                                *)
(* A datetime is [ok, days, secs, us, aware, off]: days since 1970-01-01   *)
(* and seconds and microseconds of the wall-clock reading, and for an      *)
(* aware datetime its utcoffset in minutes.  ok = FALSE is a raised        *)
(* exception in place of a value.                                          *)

Raised == [ok |-> FALSE, days |-> 0, secs |-> 0, us |-> 0, aware |-> FALSE, off |-> 0]

DateTime(days, secs, us, aware, off) ==
    [ok |-> TRUE, days |-> days, secs |-> secs, us |-> us, aware |-> aware, off |-> off]

IsLeap(y) == (y % 4 = 0) /\ ((y % 100 /= 0) \/ (y % 400 = 0))

DaysInMonth(y, m) ==
    IF m = 2 THEN (IF IsLeap(y) THEN 29 ELSE 28)
    ELSE IF m \in {4, 6, 9, 11} THEN 30 ELSE 31

\* proleptic Gregorian date -> days since 1970-01-01
DaysFromCivil(y, m, d) ==
    LET yy  == IF m <= 2 THEN y - 1 ELSE y
        era == yy \div 400
        yoe == yy - era * 400
        mp  == IF m > 2 THEN m - 3 ELSE m + 9
        doy == (153 * mp + 2) \div 5 + d - 1
        doe == yoe * 365 + yoe \div 4 - yoe \div 100 + doy
    IN  era * 146097 + doe - 719468

\* days since 1970-01-01 -> <<year, month, day>>
CivilFromDays(z) ==
    LET zz  == z + 719468
        era == zz \div 146097
        doe == zz - era * 146097
        yoe == (doe - doe \div 1460 + doe \div 36524 - doe \div 146096) \div 365
        doy == doe - (365 * yoe + yoe \div 4 - yoe \div 100)
        mp  == (5 * doy + 2) \div 153
        d   == doy - (153 * mp + 2) \div 5 + 1
        m   == IF mp < 10 THEN mp + 3 ELSE mp - 9
        y   == yoe + era * 400 + (IF m <= 2 THEN 1 ELSE 0)
    IN  <<y, m, d>>

\* the decimal number written by the n digits of s that start at position i
RECURSIVE Number(_, _, _)
Number(s, i, n) ==
    IF n = 0 THEN 0 ELSE Number(s, i, n - 1) * 10 + DigitVal(s[i + n - 1])

AllDigits(s, i, n) == \A k \in i..(i + n - 1) : IsDigit(s[k])

\* [+-]HH:MM at the end of an ISO string: [ok, min], the utcoffset in minutes
ParseOffset(z) ==
    IF /\ Len(z) = 6
       /\ z[1] \in {"+", "-"}
       /\ AllDigits(z, 2, 2)
       /\ z[4] = ":"
       /\ AllDigits(z, 5, 2)
       /\ Number(z, 2, 2) * 60 + Number(z, 5, 2) < 24 * 60
    THEN [ok |-> TRUE,
          min |-> (IF z[1] = "-" THEN -1 ELSE 1) * (Number(z, 2, 2) * 60 + Number(z, 5, 2))]
    ELSE [ok |-> FALSE, min |-> 0]

\* datetime.fromisoformat, for YYYY-MM-DD?HH:MM:SS[.ffffff][(+|-)HH:MM]; every other
\* string raises ValueError.  Without an offset the result is naive.
fromisoformat(s) ==
    IF ~ /\ Len(s) >= 19
         /\ AllDigits(s, 1, 4) /\ s[5] = "-" /\ AllDigits(s, 6, 2) /\ s[8] = "-"
         /\ AllDigits(s, 9, 2)
         /\ AllDigits(s, 12, 2) /\ s[14] = ":" /\ AllDigits(s, 15, 2) /\ s[17] = ":"
         /\ AllDigits(s, 18, 2)
    THEN Raised
    ELSE
    LET y    == Number(s, 1, 4)
        mo   == Number(s, 6, 2)
        d    == Number(s, 9, 2)
        h    == Number(s, 12, 2)
        mi   == Number(s, 15, 2)
        sec  == Number(s, 18, 2)
        frac == Len(s) >= 26 /\ s[20] = "." /\ AllDigits(s, 21, 6)
        us   == IF frac THEN Number(s, 21, 6) ELSE 0
        rest == IF frac THEN SubSeq(s, 27, Len(s)) ELSE SubSeq(s, 20, Len(s))
        off  == ParseOffset(rest)
    IN  IF ~ /\ y >= 1 /\ mo \in 1..12 /\ d \in 1..DaysInMonth(y, mo)
             /\ h < 24 /\ mi < 60 /\ sec < 60
             /\ (rest = <<>> \/ off.ok)
        THEN Raised
        ELSE DateTime(DaysFromCivil(y, mo, d), h * 3600 + mi * 60 + sec, us,
                      rest /= <<>>, IF rest = <<>> THEN 0 ELSE off.min)

\* dt.replace(tzinfo=timezone.utc): the wall-clock reading is kept
ReplaceTzUtc(dt) == IF dt.ok THEN [dt EXCEPT !.aware = TRUE, !.off = 0] ELSE dt

parse_timestamp(iso_timestamp) ==
    IF EndsWith(iso_timestamp, <<"Z">>)
    THEN fromisoformat(Replace(iso_timestamp, "Z", <<"+", "0", "0", ":", "0", "0">>))
    ELSE IF \/ Contains(iso_timestamp, "+")
            \/ EndsWith(iso_timestamp, <<"0", "0", ":", "0", "0">>)
            \/ EndsWith(iso_timestamp, <<"0", "0">>)
    THEN fromisoformat(iso_timestamp)
    ELSE ReplaceTzUtc(fromisoformat(iso_timestamp))

-----------------------------------------------------------------------------
(* Numbers: a Python int or float kept exact as (n + us/10^6) / den        *)

Million == 1000 * 1000

Num(n, us, den) == [some |-> TRUE, n |-> n, us |-> us, den |-> den]

\* None where a number may stand
NoNum == [some |-> FALSE, n |-> 0, us |-> 0, den |-> 1]

IntNum(k) == Num(k, 0, 1)

RECURSIVE Gcd(_, _)
Gcd(a, b) == IF b = 0 THEN a ELSE Gcd(b, a % b)

\* x * k, as a pair [n, us] over the denominator of x
Scale(x, k) ==
    [n |-> x.n * k + (x.us * k) \div Million, us |-> (x.us * k) % Million]

\* x / k for an int k > 0
DivNum(x, k) == Num(x.n, x.us, x.den * k)

\* a + b
AddNum(a, b) ==
    LET den == (a.den * b.den) \div Gcd(a.den, b.den)
        sa  == Scale(a, den \div a.den)
        sb  == Scale(b, den \div b.den)
    IN  Num(sa.n + sb.n + (sa.us + sb.us) \div Million, (sa.us + sb.us) % Million, den)

\* sum(xs), which starts from the int 0
RECURSIVE SumNum(_)
SumNum(xs) ==
    IF xs = <<>> THEN IntNum(0)
    ELSE AddNum(SumNum(SubSeq(xs, 1, Len(xs) - 1)), xs[Len(xs)])

\* a == b and a < 0 on these numbers
NumEq(a, b) == Scale(a, b.den) = Scale(b, a.den)

NumNegative(a) == a.n < 0

-----------------------------------------------------------------------------
(* datetime arithmetic and formatting                                      *)

\* a - b, as timedelta.total_seconds(): [ok, n, us] with 0 <= us < 10^6.
\* Subtracting an offset-naive and an offset-aware datetime raises TypeError.
SubtractSeconds(a, b) ==
    IF a.aware /= b.aware THEN [ok |-> FALSE, n |-> 0, us |-> 0]
    ELSE
    LET s == (a.days - b.days) * 86400 + (a.secs - b.secs)
             - (IF a.aware THEN (a.off - b.off) * 60 ELSE 0)
        u == a.us - b.us
    IN  IF u < 0 THEN [ok |-> TRUE, n |-> s - 1, us |-> u + Million]
                 ELSE [ok |-> TRUE, n |-> s, us |-> u]

\* dt + timedelta(hours=h) for -24 < h < 24: the wall-clock reading moves, tzinfo stays
AddHours(dt, h) ==
    LET s == dt.secs + h * 3600
    IN  IF s < 0 THEN [dt EXCEPT !.days = @ - 1, !.secs = s + 86400]
        ELSE IF s >= 86400 THEN [dt EXCEPT !.days = @ + 1, !.secs = s - 86400]
        ELSE [dt EXCEPT !.secs = s]

\* n written with w decimal digits
RECURSIVE Pad(_, _)
Pad(n, w) == IF w = 0 THEN <<>> ELSE Pad(n \div 10, w - 1) \o <<DigitChar[(n % 10) + 1]>>

\* dt.strftime("%Y-%m-%d") and dt.strftime("%H:%M:%S")
StrfDate(dt) ==
    LET c == CivilFromDays(dt.days)
    IN  Pad(c[1], 4) \o <<"-">> \o Pad(c[2], 2) \o <<"-">> \o Pad(c[3], 2)

StrfTime(dt) ==
    Pad(dt.secs \div 3600, 2) \o <<":">> \o Pad((dt.secs \div 60) % 60, 2)
        \o <<":">> \o Pad(dt.secs % 60, 2)

\* datetime.isoformat() of the date <<y, m, d>> and time <<h, mi, s>> with us
\* microseconds: YYYY-MM-DDTHH:MM:SS, then .ffffff unless us = 0; then a zone suffix
IsoString(date, time, us, zone) ==
    Pad(date[1], 4) \o <<"-">> \o Pad(date[2], 2) \o <<"-">> \o Pad(date[3], 2)
        \o <<"T">> \o Pad(time[1], 2) \o <<":">> \o Pad(time[2], 2) \o <<":">> \o Pad(time[3], 2)
        \o (IF us = 0 THEN <<>> ELSE <<".">> \o Pad(us, 6))
        \o zone

-----------------------------------------------------------------------------
(* generate_csv.py: one stats file -> one row                              *)
(*                                                                         *)
(* A stats file (json.load of it) is                                       *)
(*   [timestamp: string field, total_prs: int field,                       *)
(*    entries: [k: "list" | "null" | "absent", v: sequence of entries]]    *)
(* and an entry is                                                         *)
(*   [position, estimated_time_to_merge_seconds: int field,                *)
(*    enqueued_at: string field,                                           *)
(*    ci_status: [k: "obj" | "null" | "absent", ci_started_at: string      *)
(*                field, checks: sequence of [started_at, completed_at]]]  *)
(* A function that may raise returns [ok, val]; ok = FALSE is the raise.   *)

\* calculate_ci_runtime(ci_started_at, current_time)
calculate_ci_runtime(ci_started_at, current_time) ==
    IF Falsy(ci_started_at) THEN [ok |-> TRUE, val |-> NoNum]
    ELSE
    LET started == parse_timestamp(ci_started_at.v)
        runtime_seconds == SubtractSeconds(current_time, started)
    IN  IF ~started.ok \/ ~runtime_seconds.ok THEN [ok |-> FALSE, val |-> NoNum]
        ELSE IF runtime_seconds.n < 0 THEN [ok |-> TRUE, val |-> NoNum]
        ELSE [ok |-> TRUE,
              val |-> DivNum(Num(runtime_seconds.n, runtime_seconds.us, 1), 60)]

\* calculate_queue_clear_time reading the first entry's estimate instead of the last's
calculate_queue_clear_time_first(entries) ==
    IF entries.k /= "list" \/ entries.v = <<>> THEN NoNum
    ELSE
    LET estimated_seconds == Get(entries.v[1].estimated_time_to_merge_seconds)
    IN  IF estimated_seconds.k = "null" THEN NoNum
        ELSE DivNum(IntNum(estimated_seconds.v), 60)

\* calculate_queue_clear_time(entries), entries a list or None
calculate_queue_clear_time(entries) ==
    IF entries.k /= "list" \/ entries.v = <<>> THEN NoNum
    ELSE
    LET last_entry == entries.v[Len(entries.v)]
        estimated_seconds == Get(last_entry.estimated_time_to_merge_seconds)
    IN  IF estimated_seconds.k = "null" THEN NoNum
        ELSE DivNum(IntNum(estimated_seconds.v), 60)

\* ci_runtime_minutes taken from the entry whose position is 1, wherever it is stored
TopJobCiRuntimeByPosition(entries, dt) ==
    IF entries.k /= "list" \/ entries.v = <<>> THEN [ok |-> TRUE, val |-> NoNum]
    ELSE
    LET i == CHOOSE j \in 1..Len(entries.v) :
                 \A l \in 1..Len(entries.v) : entries.v[j].position <= entries.v[l].position
        ci_status == entries.v[i].ci_status
        ci_started_at == IF ci_status.k = "absent" THEN JNullStr
                         ELSE Get(ci_status.ci_started_at)
    IN  IF ci_status.k = "null" THEN [ok |-> FALSE, val |-> NoNum]
        ELSE IF Falsy(ci_started_at) THEN [ok |-> TRUE, val |-> NoNum]
        ELSE calculate_ci_runtime(ci_started_at, dt)

\* the lines of process_json_file that compute ci_runtime_minutes
TopJobCiRuntime(entries, dt) ==
    IF entries.k /= "list" \/ entries.v = <<>> THEN [ok |-> TRUE, val |-> NoNum]
    ELSE
    LET top_entry == entries.v[1]
        ci_status == top_entry.ci_status
        ci_started_at == IF ci_status.k = "absent" THEN JNullStr
                         ELSE Get(ci_status.ci_started_at)
    IN  IF ci_status.k = "null" THEN [ok |-> FALSE, val |-> NoNum]
        ELSE IF Falsy(ci_started_at) THEN [ok |-> TRUE, val |-> NoNum]
        ELSE calculate_ci_runtime(ci_started_at, dt)

Row(date, time, num, clear, ci) ==
    [date_pst |-> date, time_pst |-> time, num_prs |-> num,
     estimated_clear_time_minutes |-> clear, top_job_ci_runtime_minutes |-> ci]

\* process_json_file with the CI runtime measured from the display-shifted time dt_pst
process_json_file_shifted(data) ==
    LET timestamp == Get(data.timestamp)
    IN  IF Falsy(timestamp) THEN <<>>
        ELSE
        LET dt == parse_timestamp(timestamp.v)
            dt_pst == AddHours(dt, -8)
            entries == IF data.entries.k = "absent" THEN [k |-> "list", v |-> <<>>]
                       ELSE data.entries
            total_prs == IF data.total_prs.k = "absent" THEN JInt(Len(entries.v))
                         ELSE data.total_prs
            clear_time_hours == calculate_queue_clear_time(entries)
            ci_runtime_minutes == TopJobCiRuntime(entries, dt_pst)
        IN  IF \/ ~dt.ok
               \/ entries.k = "null"
               \/ ~ci_runtime_minutes.ok
            THEN <<>>
            ELSE <<Row(StrfDate(dt_pst), StrfTime(dt_pst), total_prs,
                       clear_time_hours, ci_runtime_minutes.val)>>

\* process_json_file(file_path), on the file's parsed content: <<row>>, or <<>> for None
process_json_file(data) ==
    LET timestamp == Get(data.timestamp)
    IN  IF Falsy(timestamp) THEN <<>>
        ELSE
        LET dt == parse_timestamp(timestamp.v)
            dt_pst == AddHours(dt, -8)
            entries == IF data.entries.k = "absent" THEN [k |-> "list", v |-> <<>>]
                       ELSE data.entries
            total_prs == IF data.total_prs.k = "absent" THEN JInt(Len(entries.v))
                         ELSE data.total_prs
            clear_time_hours == calculate_queue_clear_time(entries)
            ci_runtime_minutes == TopJobCiRuntime(entries, dt)
        IN  IF \/ ~dt.ok
               \/ entries.k = "null"      \* len(entries) raises TypeError
               \/ ~ci_runtime_minutes.ok
            THEN <<>>
            ELSE <<Row(StrfDate(dt_pst), StrfTime(dt_pst), total_prs,
                       clear_time_hours, ci_runtime_minutes.val)>>

-----------------------------------------------------------------------------
(* generate_csv.py: generate_csv                                           *)

\* a loop body that puts the new row first
RowsAfterPrepend(rs, json_file) == process_json_file(json_file) \o rs

\* a loop body in which a failed extraction discards the rows collected so far
RowsAfterAbort(rs, json_file) ==
    IF process_json_file(json_file) = <<>> THEN <<>>
    ELSE rs \o process_json_file(json_file)

\* the loop body: rows after one more file
RowsAfter(rs, json_file) == rs \o process_json_file(json_file)

\* [r[f] or 0 for r in rs]: a None kept in the list as 0
SelectNullAsZero(rs, f) ==
    [i \in 1..Len(rs) |-> IF rs[i][f].some THEN rs[i][f] ELSE IntNum(0)]

RECURSIVE Select(_, _)
\* [r[f] for r in rs if r[f] is not None], f a field name
Select(rs, f) ==
    IF rs = <<>> THEN <<>>
    ELSE (IF Head(rs)[f].some THEN <<Head(rs)[f]>> ELSE <<>>) \o Select(Tail(rs), f)

\* sum(xs) / len(xs) if xs else 0
MeanOrZero(xs) == IF xs /= <<>> THEN DivNum(SumNum(xs), Len(xs)) ELSE IntNum(0)

NoStats == [printed |-> FALSE, avg_prs |-> IntNum(0), avg_clear_time |-> IntNum(0),
            avg_ci_runtime |-> IntNum(0)]

\* the summary statistics of the rows
Summary(rs) ==
    [printed |-> TRUE,
     avg_prs |-> DivNum(SumNum([i \in 1..Len(rs) |-> IntNum(rs[i].num_prs.v)]), Len(rs)),
     avg_clear_time |-> MeanOrZero(Select(rs, "estimated_clear_time_minutes")),
     avg_ci_runtime |-> MeanOrZero(Select(rs, "top_job_ci_runtime_minutes"))]

\* for json_file in json_files: one iteration
ProcessNextFile ==
    /\ pc = "loop"
    /\ idx < Len(files)
    /\ rows' = RowsAfter(rows, files[idx + 1])
    /\ idx' = idx + 1
    /\ UNCHANGED <<ts_in, ts_out, head_commit, check_status, files, pc, csv_file, stats, polls>>

\* after the loop: return when there are no rows; else write the CSV and print the
\* summary; sum() over a null num_prs raises TypeError after the CSV is written
WriteAndSummarize ==
    /\ pc = "loop"
    /\ idx = Len(files)
    /\ IF rows = <<>>
       THEN pc' = "returned" /\ UNCHANGED <<csv_file, stats>>
       ELSE /\ csv_file' = rows
            /\ IF \E i \in 1..Len(rows) : rows[i].num_prs.k /= "int"
               THEN pc' = "raised" /\ UNCHANGED stats
               ELSE pc' = "done" /\ stats' = Summary(rows)
    /\ UNCHANGED <<ts_in, ts_out, head_commit, check_status, files, idx, rows, polls>>

-----------------------------------------------------------------------------
(* merge_queue_monitor.py: MergeQueueMonitor.process_check_runs            *)
(*                                                                         *)
(* head_commit is [k: "null" | "obj", rollup], rollup (statusCheckRollup)  *)
(* is [k: "null" | "absent" | "obj", state, nodes], and a node (context)   *)
(* is [status: [k: "absent" | "str", v], startedAt: string field].         *)

\* str.upper() on the status spellings of the model
Upper(s) ==
    CASE s = "queued" -> "QUEUED"
      [] s = "in_progress" -> "IN_PROGRESS"
      [] s = "completed" -> "COMPLETED"
      [] OTHER -> s

\* context.get("status", "QUEUED").upper(): a context without a status read as queued
StatusOfDefaultQueued(context) ==
    IF context.status.k = "absent" THEN "QUEUED" ELSE Upper(context.status.v)

\* context.get("status", "").upper()
StatusOf(context) == IF context.status.k = "absent" THEN "" ELSE Upper(context.status.v)

\* the number of contexts the loop counts under `status`
RECURSIVE CountStatus(_, _)
CountStatus(contexts, status) ==
    IF contexts = <<>> THEN 0
    ELSE (IF StatusOf(Head(contexts)) = status THEN 1 ELSE 0)
         + CountStatus(Tail(contexts), status)

\* started_at < earliest_start_time, on the raw strings
StartsBefore(started_at, earliest_start_time) == StrLess(started_at, earliest_start_time)

\* the loop's tracking of earliest_start_time, from the value it holds so far
RECURSIVE EarliestStart(_, _)
EarliestStart(contexts, earliest_start_time) ==
    IF contexts = <<>> THEN earliest_start_time
    ELSE
    LET started_at == Get(Head(contexts).startedAt)
    IN  EarliestStart(Tail(contexts),
            IF Falsy(started_at) THEN earliest_start_time
            ELSE IF earliest_start_time.k = "null" THEN started_at
            ELSE IF StartsBefore(started_at.v, earliest_start_time.v) THEN started_at
            ELSE earliest_start_time)

CheckStatus(total, in_progress, completed, queued, overall_state, ci_started_at, checks) ==
    [total |-> total, in_progress |-> in_progress, completed |-> completed,
     queued |-> queued, overall_state |-> overall_state,
     ci_started_at |-> ci_started_at, checks |-> checks]

\* process_check_runs(head_commit); the early return has no "overall_state" key
process_check_runs(hc) ==
    IF hc.k = "null" \/ hc.rollup.k /= "obj"
    THEN CheckStatus(0, 0, 0, 0, "absent", JNullStr, <<>>)
    ELSE
    LET contexts == hc.rollup.nodes
    IN  CheckStatus(Len(contexts),
                    CountStatus(contexts, "IN_PROGRESS"),
                    CountStatus(contexts, "COMPLETED"),
                    CountStatus(contexts, "QUEUED"),
                    hc.rollup.state,
                    EarliestStart(contexts, JNullStr),
                    contexts)

\* the call process_check_runs(head_commit)
ProcessCheckRuns ==
    /\ check_status = <<>>
    /\ check_status' = <<process_check_runs(head_commit)>>
    /\ UNCHANGED <<ts_in, ts_out, head_commit, files, pc, idx, rows, csv_file, stats, polls>>

\* the call parse_timestamp(ts_in)
ParseTimestamp ==
    /\ ts_out = <<>>
    /\ ts_out' = <<parse_timestamp(ts_in)>>
    /\ UNCHANGED <<ts_in, head_commit, check_status, files, pc, idx, rows, csv_file, stats, polls>>

-----------------------------------------------------------------------------
(* Inputs                                                                  *)

\* the most stats files in a batch, entries in a snapshot, check runs on a commit
MaxFiles == 3
MaxEntries == 2
MaxRuns == 3

\* the offset suffix (+|-)HH:MM of an offset of `min` minutes; neg writes the sign
OffsetSuffix(neg, min) ==
    <<IF neg THEN "-" ELSE "+">> \o Pad(min \div 60, 2) \o <<":">> \o Pad(min % 60, 2)

\* a zone is [kind, neg, min]: no zone text, the Z marker, or a numeric offset
NoZone == [kind |-> "none", neg |-> FALSE, min |-> 0]
Zulu == [kind |-> "Z", neg |-> FALSE, min |-> 0]
Offset(neg, min) == [kind |-> "offset", neg |-> neg, min |-> min]

ZoneSuffix(z) ==
    CASE z.kind = "none" -> <<>>
      [] z.kind = "Z" -> <<"Z">>
      [] OTHER -> OffsetSuffix(z.neg, z.min)

Dates == {<<2024, 1, 1>>, <<2024, 2, 29>>, <<2023, 12, 31>>}
Times == {<<0, 0, 0>>, <<19, 30, 0>>, <<20, 0, 0>>, <<20, 0, 1>>, <<12, 0, 10>>, <<23, 59, 59>>}
Micros == {0, 123456, 123400, 500000}
Zones == {NoZone, Zulu, Offset(FALSE, 0), Offset(TRUE, 0), Offset(FALSE, 330),
          Offset(FALSE, 540), Offset(TRUE, 300), Offset(TRUE, 330), Offset(TRUE, 480),
          Offset(TRUE, 225)}

TsFields == [date : Dates, time : Times, us : Micros, zone : Zones]

TsString(f) == IsoString(f.date, f.time, f.us, ZoneSuffix(f.zone))

NotADate == <<"n", "o", "t", "-", "a", "-", "d", "a", "t", "e">>

MalformedStrings ==
    {<<>>, NotADate,
     IsoString(<<2024, 13, 1>>, <<20, 0, 0>>, 0, <<>>),
     IsoString(<<2024, 1, 1>>, <<24, 0, 0>>, 0, <<"Z">>),
     IsoString(<<2023, 2, 29>>, <<20, 0, 0>>, 0, <<"+", "0", "5">>)}

TimestampStrings == {TsString(f) : f \in TsFields} \cup MalformedStrings

\* timestamps of 2024-01-01
Jan1(time, us, zone) == IsoString(<<2024, 1, 1>>, time, us, ZoneSuffix(zone))

-----------------------------------------------------------------------------
(* Check runs                                                              *)

NoStatus == [k |-> "absent", v |-> ""]
Status(s) == [k |-> "str", v |-> s]

Statuses == {NoStatus, Status("IN_PROGRESS"), Status("COMPLETED"), Status("QUEUED"),
             Status("PENDING"), Status("WAITING")}

StartedAts ==
    {JNullStr,
     JStr(Jan1(<<18, 30, 0>>, 0, Zulu)),
     JStr(Jan1(<<19, 30, 0>>, 0, Zulu)),
     JStr(Jan1(<<19, 0, 0>>, 0, Offset(FALSE, 120)))}

Contexts == [status : Statuses, startedAt : StartedAts]

SeqsUpTo(S, n) == UNION {[1..k -> S] : k \in 0..n}

NoRollup(k) == [k |-> k, state |-> "absent", nodes |-> <<>>]

NullCommit == [k |-> "null", rollup |-> NoRollup("absent")]

HeadCommits ==
    {[k |-> "null", rollup |-> NoRollup("absent")],
     [k |-> "obj", rollup |-> NoRollup("absent")],
     [k |-> "obj", rollup |-> NoRollup("null")]}
    \cup {[k |-> "obj", rollup |-> [k |-> "obj", state |-> "PENDING", nodes |-> cs]] :
             cs \in SeqsUpTo(Contexts, MaxRuns)}

-----------------------------------------------------------------------------
(* Stats files                                                             *)

Snapshot(timestamp, total_prs, entries) ==
    [timestamp |-> timestamp, total_prs |-> total_prs, entries |-> entries]

List(es) == [k |-> "list", v |-> es]
NoList(k) == [k |-> k, v |-> <<>>]

Entry(position, est, enqueued_at, ci_status) ==
    [position |-> position, estimated_time_to_merge_seconds |-> est,
     enqueued_at |-> enqueued_at, ci_status |-> ci_status]

CiStatus(ci_started_at, checks) ==
    [k |-> "obj", ci_started_at |-> ci_started_at, checks |-> checks]
NoCiStatus(k) == [k |-> k, ci_started_at |-> JAbsentStr, checks |-> <<>>]

Check(started_at, completed_at) == [started_at |-> started_at, completed_at |-> completed_at]

At1800Z == JStr(Jan1(<<18, 0, 0>>, 0, Zulu))
At1830Z == JStr(Jan1(<<18, 30, 0>>, 0, Zulu))
At1930Z == JStr(Jan1(<<19, 30, 0>>, 0, Zulu))
At1945Z == JStr(Jan1(<<19, 45, 0>>, 0, Zulu))
At2000Z == JStr(Jan1(<<20, 0, 0>>, 0, Zulu))
At2030Z == JStr(Jan1(<<20, 30, 0>>, 0, Zulu))
At1900Minus0530 == JStr(Jan1(<<19, 0, 0>>, 0, Offset(TRUE, 330)))
Local2000 == JStr(Jan1(<<20, 0, 0>>, 0, NoZone))
Local2000Micros == JStr(Jan1(<<20, 0, 0>>, 123456, NoZone))

GoodCheck == Check(At1930Z, At1945Z)

\* the checks behind an earliest start: one check that started then, or none
ChecksStarted(start) == IF start.k = "str" THEN <<Check(start, JNullStr)>> ELSE <<>>

\* Snapshots of up to MaxEntries entries, stored in any order of their positions 1..n
WideObservations == {At2000Z, Local2000, Local2000Micros}
WideStarts == {JNullStr, At1930Z, At2030Z, At1900Minus0530}
WideEstimates == {JNullInt, JInt(1800), JInt(90)}
WideBodies == [est : WideEstimates, start : WideStarts]

WideEntryLists ==
    UNION {{[i \in 1..n |-> Entry(pos[i], body[i].est, At1800Z,
                                  CiStatus(body[i].start, ChecksStarted(body[i].start)))] :
               pos \in Permutations(1..n), body \in [1..n -> WideBodies]} :
           n \in 0..MaxEntries}

WideSnapshots ==
    {Snapshot(obs, total, List(es)) :
        obs \in WideObservations, total \in {JAbsentInt, JInt(7)}, es \in WideEntryLists}

\* Snapshots of at most one entry, over every shape of every field
DeepObservations ==
    WideObservations
    \cup {JStr(Jan1(<<4, 0, 0>>, 0, Zulu)), JStr(Jan1(<<20, 0, 0>>, 0, Offset(FALSE, 330))),
          JStr(NotADate), JStr(<<>>), JNullStr, JAbsentStr}
DeepStarts ==
    WideStarts
    \cup {JAbsentStr, JStr(<<>>), JStr(NotADate), JStr(Jan1(<<19, 30, 0>>, 0, NoZone)),
          JStr(Jan1(<<19, 30, 1>>, 0, NoZone)), JStr(Jan1(<<19, 30, 0>>, 500000, Zulu))}
DeepEstimates == {JAbsentInt, JNullInt, JInt(0), JInt(1800), JInt(90)}
DeepEnqueued == {At1800Z, JStr(NotADate), JNullStr}
DeepChecks == {<<>>, <<GoodCheck>>, <<Check(JStr(NotADate), At1945Z)>>,
               <<Check(At1930Z, JStr(NotADate))>>}
DeepCiStatuses ==
    {NoCiStatus("absent"), NoCiStatus("null")}
    \cup {CiStatus(s, cs) : s \in DeepStarts, cs \in DeepChecks}
DeepEntryFields ==
    {NoList("absent"), NoList("null"), List(<<>>)}
    \cup {List(<<Entry(1, est, enq, ci)>>) :
             est \in DeepEstimates, enq \in DeepEnqueued, ci \in DeepCiStatuses}

DeepSnapshots ==
    {Snapshot(obs, total, es) :
        obs \in DeepObservations, total \in {JAbsentInt, JNullInt, JInt(0), JInt(7)},
        es \in DeepEntryFields}

Snapshots == WideSnapshots \cup DeepSnapshots

\* The snapshots of a batch: well-formed ones with different metrics, and ones with an
\* unparseable timestamp in one place
BatchEntries ==
    {Entry(1, JInt(1800), At1800Z, CiStatus(At1930Z, <<GoodCheck>>)),
     Entry(1, JInt(90), At1800Z, CiStatus(At1830Z, <<GoodCheck>>)),
     Entry(1, JNullInt, At1800Z, CiStatus(At1930Z, <<GoodCheck>>)),
     Entry(1, JInt(1800), At1800Z, CiStatus(JStr(NotADate), <<GoodCheck>>)),
     Entry(1, JInt(1800), JStr(NotADate), CiStatus(At1930Z, <<GoodCheck>>)),
     Entry(1, JInt(1800), At1800Z,
           CiStatus(At1930Z, <<Check(JStr(NotADate), JStr(NotADate))>>))}

BatchSnapshots ==
    {Snapshot(obs, JAbsentInt, List(es)) :
        obs \in {At2000Z, JStr(NotADate)},
        es \in {<<>>} \cup {<<e>> : e \in BatchEntries}}

-----------------------------------------------------------------------------
(* Responses of the platform and readings of the local clock               *)

PlatformContext(status, startedAt, completedAt) ==
    [status |-> Status(status), startedAt |-> startedAt, completedAt |-> completedAt]

PlatformRollup(contexts) ==
    [k |-> "obj", rollup |-> [k |-> "obj", state |-> "PENDING", nodes |-> contexts]]

\* head commits: none, one without check data, ones whose checks have or have not started
PlatformCommits ==
    {NullCommit,
     [k |-> "obj", rollup |-> NoRollup("null")],
     PlatformRollup(<<PlatformContext("QUEUED", JNullStr, JNullStr)>>),
     PlatformRollup(<<PlatformContext("IN_PROGRESS", At1930Z, JNullStr)>>),
     PlatformRollup(<<PlatformContext("IN_PROGRESS", At1930Z, JNullStr),
                      PlatformContext("COMPLETED", At1830Z, At1945Z)>>)}

PlatformEstimate(commit) == IF commit.k = "null" THEN JNullInt ELSE JInt(1800)

\* the nodes of a response: up to MaxEntries entries, in any order of their positions
PlatformNodes ==
    UNION {{[i \in 1..n |-> [position |-> pos[i],
                             estimatedTimeToMerge |-> PlatformEstimate(commit[i]),
                             enqueuedAt |-> At1800Z,
                             headCommit |-> commit[i]]] :
               pos \in Permutations(1..n), commit \in [1..n -> PlatformCommits]} :
           n \in 0..MaxEntries}

Response(kind, errors, queue, nodes) ==
    [kind |-> kind, errors |-> errors, queue |-> queue, nodes |-> nodes]

Responses ==
    {Response("exception", FALSE, "absent", <<>>),
     Response("http_error", FALSE, "absent", <<>>),
     Response("body", TRUE, "absent", <<>>),
     Response("body", FALSE, "absent", <<>>),
     Response("body", FALSE, "null", <<>>)}
    \cup {Response("body", FALSE, "obj", nodes) : nodes \in PlatformNodes}
    \cup {Response("body", TRUE, "obj", nodes) : nodes \in {ns \in PlatformNodes : Len(ns) = 1}}

\* readings of datetime.now() on 2024-01-01
Clocks == [date : {<<2024, 1, 1>>}, time : Times, us : Micros]

-----------------------------------------------------------------------------
(* merge_queue_monitor.py: get_merge_queue_entries and export_to_json      *)
(*                                                                         *)
(* A response to the GraphQL request is [kind, errors, queue, nodes]:      *)
(* kind "exception" when requests.post raises, "http_error" when           *)
(* raise_for_status raises, else "body" for a JSON body; errors says       *)
(* whether the body has the key "errors"; queue is the mergeQueue value on *)
(* the path data.repository.mergeQueue ("absent" when a key of the path is *)
(* missing, "null" when it is null) and nodes its entries.nodes.  A node   *)
(* is [position, estimatedTimeToMerge, enqueuedAt, headCommit] and a       *)
(* context of its headCommit is [status, startedAt, completedAt].          *)
(* Of an exported entry the model keeps position, enqueued_at,             *)
(* estimated_time_to_merge_seconds and ci_status (ci_started_at, and of    *)
(* each check started_at and completed_at).                                *)

\* get_merge_queue_entries that returns the nodes of a body that also carries errors
get_merge_queue_entries_partial(response) ==
    IF response.kind /= "body" \/ response.queue /= "obj" THEN <<>> ELSE response.nodes

\* get_merge_queue_entries(branch), on the response the request gets
get_merge_queue_entries(response) ==
    IF response.kind /= "body" THEN <<>>          \* except Exception: return []
    ELSE IF response.errors THEN <<>>             \* "errors" in data: return []
    ELSE IF response.queue = "null" THEN <<>>     \* None.get raises, except: return []
    ELSE IF response.queue = "absent" THEN <<>>   \* the defaults of the .get chain
    ELSE response.nodes

\* entry_data of one fetched entry; ci_status only for a head commit
EntryData(entry) ==
    LET aggregate == process_check_runs(entry.headCommit)
    IN  Entry(entry.position,
              Get(entry.estimatedTimeToMerge),
              Get(entry.enqueuedAt),
              IF entry.headCommit.k = "null" THEN NoCiStatus("absent")
              ELSE CiStatus(aggregate.ci_started_at,
                            [c \in 1..Len(aggregate.checks) |->
                                Check(Get(aggregate.checks[c].startedAt),
                                      Get(aggregate.checks[c].completedAt))]))

\* export_data: timestamp is datetime.now().isoformat(), the local reading without zone
ExportData(entries, now) ==
    Snapshot(JStr(IsoString(now.date, now.time, now.us, <<>>)),
             JInt(Len(entries)),
             List([i \in 1..Len(entries) |-> EntryData(entries[i])]))

\* export_to_json(output_file, branch): what it writes when the clock reads `now`
export_to_json(response, now) ==
    ExportData(get_merge_queue_entries(response), now)

\* one run of export_to_json: the request gets some response, the clock reads some time,
\* and the file is written, or writing it fails and the run ends in sys.exit(1)
ExportToJson ==
    /\ pc = "poll"
    /\ polls = <<>>
    /\ \E response \in Responses, now \in Clocks, written \in BOOLEAN :
          /\ polls' = Append(polls, [response |-> response, now |-> now, written |-> written])
          /\ files' = IF written THEN Append(files, export_to_json(response, now)) ELSE files
    /\ UNCHANGED <<ts_in, ts_out, head_commit, check_status, pc, idx, rows, csv_file, stats>>

\* generate_csv up to its loop: json_files are the files of the stats directory, and
\* the function returns when there is none
FindJsonFiles ==
    /\ pc = "poll"
    /\ polls /= <<>>
    /\ pc' = IF files = <<>> THEN "returned" ELSE "loop"
    /\ UNCHANGED <<ts_in, ts_out, head_commit, check_status, files, idx, rows, csv_file,
                   stats, polls>>

-----------------------------------------------------------------------------
(* Specifications                                                          *)

\* no function has been called yet
Idle ==
    /\ ts_out = <<>>
    /\ check_status = <<>>
    /\ pc = "loop"
    /\ idx = 0
    /\ rows = <<>>
    /\ csv_file = <<>>
    /\ stats = NoStats
    /\ polls = <<>>

\* generate_csv
Next == ProcessNextFile \/ WriteAndSummarize

CsvIdle == Idle /\ ts_in = <<>> /\ head_commit = NullCommit

\* generate_csv on every batch of up to MaxFiles stats files
Init == CsvIdle /\ files \in SeqsUpTo(BatchSnapshots, MaxFiles)
Spec == Init /\ [][Next]_vars

\* generate_csv on one stats file, over every snapshot of the model
InitRow == CsvIdle /\ files \in {<<s>> : s \in Snapshots}
SpecRow == InitRow /\ [][Next]_vars

\* parse_timestamp on every timestamp string of the model
InitTs == Idle /\ ts_in \in TimestampStrings /\ head_commit = NullCommit /\ files = <<>>
SpecTs == InitTs /\ [][ParseTimestamp]_vars

\* process_check_runs on every head commit of the model
InitChecks == Idle /\ ts_in = <<>> /\ head_commit \in HeadCommits /\ files = <<>>
SpecChecks == InitChecks /\ [][ProcessCheckRuns]_vars

\* one run of export_to_json into an empty stats directory, then generate_csv on it
PipelineNext == ExportToJson \/ FindJsonFiles \/ ProcessNextFile \/ WriteAndSummarize

InitPipeline ==
    /\ ts_in = <<>> /\ ts_out = <<>>
    /\ head_commit = NullCommit /\ check_status = <<>>
    /\ files = <<>> /\ pc = "poll" /\ idx = 0 /\ rows = <<>>
    /\ csv_file = <<>> /\ stats = NoStats /\ polls = <<>>
SpecPipeline == InitPipeline /\ [][PipelineNext]_vars

-----------------------------------------------------------------------------
(* Timestamp Normalizer (parse_timestamp)                                  *)

\* the wall-clock reading that the fields f write
WallClock(f, aware, off) ==
    DateTime(DaysFromCivil(f.date[1], f.date[2], f.date[3]),
             f.time[1] * 3600 + f.time[2] * 60 + f.time[3], f.us, aware, off)

SignedMinutes(z) == IF z.neg THEN -z.min ELSE z.min

\* C1: for every well-formed date-time string without any zone text, parse_timestamp
\* returns an aware datetime in UTC with the reading the string writes, whatever
\* characters the string ends with.
C1_ZonelessIsUtc ==
    \A f \in TsFields :
        (f.zone.kind = "none" /\ ts_in = TsString(f) /\ ts_out /= <<>>)
            => ts_out[1] = WallClock(f, TRUE, 0)

\* C2: for every well-formed string with an explicit numeric offset, positive or
\* negative, parse_timestamp returns the reading with that offset, never UTC in its place.
C2_OffsetHonored ==
    \A f \in TsFields :
        (f.zone.kind = "offset" /\ ts_in = TsString(f) /\ ts_out /= <<>>)
            => ts_out[1] = WallClock(f, TRUE, SignedMinutes(f.zone))

-----------------------------------------------------------------------------
(* Check-Run Aggregator (process_check_runs)                               *)

\* the contexts process_check_runs is given: none without check data
NodesOf(hc) == IF hc.k = "obj" /\ hc.rollup.k = "obj" THEN hc.rollup.nodes ELSE <<>>

\* the instant a timestamp string denotes, in seconds since 1970-01-01T00:00:00Z:
\* Z is UTC, an offset is honoured, no zone text is UTC
InstantSeconds(s) ==
    LET dt == fromisoformat(Replace(s, "Z", <<"+", "0", "0", ":", "0", "0">>))
    IN  dt.days * 86400 + dt.secs - dt.off * 60

Started(nodes) == {i \in 1..Len(nodes) : nodes[i].startedAt.k = "str"}

\* C9: the earliest start returned is the minimum, as instants, over the runs that have
\* a start, and none exactly when no run has a start.
C9_EarliestIsMinimumInstant ==
    check_status /= <<>> =>
        LET nodes == NodesOf(head_commit)
            got == check_status[1].ci_started_at
        IN  IF Started(nodes) = {} THEN got.k = "null"
            ELSE /\ got.k = "str"
                 /\ \E i \in Started(nodes) : nodes[i].startedAt = got
                 /\ \A i \in Started(nodes) :
                        InstantSeconds(got.v) <= InstantSeconds(nodes[i].startedAt.v)

WithStatus(nodes, s) ==
    Cardinality({i \in 1..Len(nodes) : nodes[i].status.k = "str" /\ nodes[i].status.v = s})

\* C10: total is the number of runs, and in_progress, completed and queued are the
\* numbers of runs with exactly that status; runs with another status or none count in
\* total only, so the three sum to at most total; without check data (null head commit,
\* no rollup) every count is 0 and the earliest start is null.
C10_CountsByStatus ==
    check_status /= <<>> =>
        LET nodes == NodesOf(head_commit)
            r == check_status[1]
        IN  /\ r.total = Len(nodes)
            /\ r.in_progress = WithStatus(nodes, "IN_PROGRESS")
            /\ r.completed = WithStatus(nodes, "COMPLETED")
            /\ r.queued = WithStatus(nodes, "QUEUED")
            /\ r.in_progress + r.completed + r.queued <= r.total
            /\ (head_commit.k = "null" \/ head_commit.rollup.k /= "obj")
                   => /\ r.total = 0 /\ r.in_progress = 0 /\ r.completed = 0
                      /\ r.queued = 0 /\ r.ci_started_at.k = "null"

\* C10 witness: three runs, one queued, one with a status outside the three buckets and
\* one without a status, counted as total 3 and queued 1
C10_Witness ==
    /\ check_status /= <<>>
    /\ Len(NodesOf(head_commit)) = 3
    /\ \E i, j, k \in 1..3 :
          /\ head_commit.rollup.nodes[i].status = Status("QUEUED")
          /\ head_commit.rollup.nodes[j].status = Status("WAITING")
          /\ head_commit.rollup.nodes[k].status = NoStatus
    /\ check_status[1].total = 3
    /\ check_status[1].queued = 1
    /\ check_status[1].in_progress + check_status[1].completed = 0

-----------------------------------------------------------------------------
(* Snapshot Metric Extractor (process_json_file)                           *)

\* the entries sequence of a stats file, empty when there is none
EntriesOf(data) == IF data.entries.k = "list" THEN data.entries.v ELSE <<>>

\* the one stats file of SpecRow has been extracted into a row
RowEmitted == Len(files) = 1 /\ idx = 1 /\ Len(rows) = 1

\* the instant a timestamp string denotes, as an aware datetime: Z is UTC, an offset
\* is honoured, no zone text is UTC
Instant(s) ==
    LET dt == fromisoformat(Replace(s, "Z", <<"+", "0", "0", ":", "0", "0">>))
    IN  [dt EXCEPT !.aware = TRUE]

\* the first stored entry has a non-empty ci_started_at string
TopStarted(data) ==
    /\ EntriesOf(data) /= <<>>
    /\ EntriesOf(data)[1].ci_status.k = "obj"
    /\ EntriesOf(data)[1].ci_status.ci_started_at.k = "str"
    /\ EntriesOf(data)[1].ci_status.ci_started_at.v /= <<>>

\* observation instant - start instant of the first stored entry, in seconds
Elapsed(data) ==
    SubtractSeconds(Instant(data.timestamp.v),
                    Instant(EntriesOf(data)[1].ci_status.ci_started_at.v))

RuntimeMatchesElapsed(data, r) ==
    /\ r.some => ~NumNegative(r)
    /\ TopStarted(data) =>
          IF Elapsed(data).n < 0 THEN ~r.some
          ELSE r.some /\ NumEq(r, Num(Elapsed(data).n, Elapsed(data).us, 60))

\* C3: in every emitted row top_job_ci_runtime_minutes is null or >= 0; it is null when
\* the top entry's CI start is later than the observation instant, and otherwise it is
\* (observation instant - start instant) in minutes.
C3_RuntimeNullOrElapsed ==
    RowEmitted => RuntimeMatchesElapsed(files[1], rows[1].top_job_ci_runtime_minutes)

\* parse_timestamp gives the string the instant it denotes
ParsedAsDenoted(s) ==
    /\ parse_timestamp(s).aware
    /\ SubtractSeconds(parse_timestamp(s), Instant(s)) = [ok |-> TRUE, n |-> 0, us |-> 0]

\* C3 holds of every row whose two timestamps parse_timestamp reads as the instants they
\* denote: what C3 fails on are the strings of C1 and C2
C3_ExceptMisparsed ==
    (/\ RowEmitted
     /\ TopStarted(files[1]) =>
            /\ ParsedAsDenoted(files[1].timestamp.v)
            /\ ParsedAsDenoted(EntriesOf(files[1])[1].ci_status.ci_started_at.v))
        => RuntimeMatchesElapsed(files[1], rows[1].top_job_ci_runtime_minutes)

\* the estimate of the last stored entry, as an int field
LastEstimate(data) ==
    EntriesOf(data)[Len(EntriesOf(data))].estimated_time_to_merge_seconds

RuntimeFrom(e, obs) ==
    IF e.ci_status.k = "obj"
    THEN calculate_ci_runtime(Get(e.ci_status.ci_started_at), parse_timestamp(obs)).val
    ELSE NoNum

Ascending(es) == \A i, j \in 1..Len(es) : i < j => es[i].position < es[j].position

\* C5 as stated: top_job_ci_runtime_minutes is computed from the entry whose position is
\* 1, in whatever order the entries are stored.
C5_FromPositionOne ==
    RowEmitted =>
        \A i \in 1..Len(EntriesOf(files[1])) :
            EntriesOf(files[1])[i].position = 1
                => rows[1].top_job_ci_runtime_minutes
                       = RuntimeFrom(EntriesOf(files[1])[i], files[1].timestamp.v)

\* C5 as amended: top_job_ci_runtime_minutes is computed from the first stored entry
\* alone; that entry is the one with position 1 when the entries are stored in ascending
\* order of position.
C5_FromFirstStored ==
    (RowEmitted /\ EntriesOf(files[1]) /= <<>>) =>
        /\ rows[1].top_job_ci_runtime_minutes
               = RuntimeFrom(EntriesOf(files[1])[1], files[1].timestamp.v)
        /\ Ascending(EntriesOf(files[1])) => EntriesOf(files[1])[1].position = 1

\* C5 witness: entries stored with position 2 first, and the row carries the runtime of
\* that entry, not of the entry with position 1
C5_Witness ==
    /\ RowEmitted
    /\ Len(EntriesOf(files[1])) = 2
    /\ EntriesOf(files[1])[1].position = 2
    /\ EntriesOf(files[1])[2].position = 1
    /\ rows[1].top_job_ci_runtime_minutes.some
    /\ rows[1].top_job_ci_runtime_minutes
           = RuntimeFrom(EntriesOf(files[1])[1], files[1].timestamp.v)
    /\ rows[1].top_job_ci_runtime_minutes
           /= RuntimeFrom(EntriesOf(files[1])[2], files[1].timestamp.v)

\* the text YYYY-MM-DD HH:MM:SS of t seconds after 1970-01-01 00:00:00, as <<date, time>>
Clock(t) ==
    LET c == CivilFromDays(t \div 86400)
        s == t % 86400
    IN  <<Pad(c[1], 4) \o <<"-">> \o Pad(c[2], 2) \o <<"-">> \o Pad(c[3], 2),
          Pad(s \div 3600, 2) \o <<":">> \o Pad((s % 3600) \div 60, 2) \o <<":">>
              \o Pad(s % 60, 2)>>

\* the reading of the observation timestamp, in seconds after 1970-01-01 00:00:00
ObservedAt(data) ==
    parse_timestamp(data.timestamp.v).days * 86400 + parse_timestamp(data.timestamp.v).secs

\* C11: the display shift moves only the date and time columns, to the observation's
\* reading 8 hours back; top_job_ci_runtime_minutes is measured from the unshifted
\* observation, so an observation at 20:00:00Z with a top start at 19:30:00Z of the same
\* day gives 30 minutes (not 30 - 480, a null) and 12:00:00 on the same date.
C11_ShiftIsDisplayOnly ==
    RowEmitted =>
        /\ <<rows[1].date_pst, rows[1].time_pst>> = Clock(ObservedAt(files[1]) - 8 * 3600)
        /\ TopStarted(files[1]) =>
               rows[1].top_job_ci_runtime_minutes
                   = calculate_ci_runtime(EntriesOf(files[1])[1].ci_status.ci_started_at,
                                          parse_timestamp(files[1].timestamp.v)).val
        /\ (/\ files[1].timestamp = At2000Z
            /\ TopStarted(files[1])
            /\ EntriesOf(files[1])[1].ci_status.ci_started_at = At1930Z)
               => /\ NumEq(rows[1].top_job_ci_runtime_minutes, IntNum(30))
                  /\ rows[1].date_pst = <<"2","0","2","4","-","0","1","-","0","1">>
                  /\ rows[1].time_pst = <<"1","2",":","0","0",":","0","0">>

\* C11 witness: the observation at 20:00:00Z with the top start at 19:30:00Z, extracted
\* into a row of 30 minutes at 12:00:00
C11_Witness ==
    /\ RowEmitted
    /\ files[1].timestamp = At2000Z
    /\ TopStarted(files[1])
    /\ EntriesOf(files[1])[1].ci_status.ci_started_at = At1930Z
    /\ rows[1].top_job_ci_runtime_minutes = Num(1800, 0, 60)
    /\ rows[1].time_pst = <<"1","2",":","0","0",":","0","0">>

\* C11 witness across midnight: an observation at 04:00:00Z shown at 20:00:00 of the
\* day before
C11_WitnessDayBefore ==
    /\ RowEmitted
    /\ files[1].timestamp = JStr(Jan1(<<4, 0, 0>>, 0, Zulu))
    /\ rows[1].date_pst = <<"2","0","2","3","-","1","2","-","3","1">>
    /\ rows[1].time_pst = <<"2","0",":","0","0",":","0","0">>

\* the one stats file of SpecRow has been processed, into a row or into none
RowAttempted == Len(files) = 1 /\ idx = 1

\* a present value is usable: the observation timestamp is a string that parses, and a
\* start time that the first entry carries gives a runtime without raising
PresentValuesUsable(data) ==
    /\ ~Falsy(Get(data.timestamp))
    /\ parse_timestamp(data.timestamp.v).ok
    /\ TopStarted(data) =>
           calculate_ci_runtime(EntriesOf(data)[1].ci_status.ci_started_at,
                                parse_timestamp(data.timestamp.v)).ok

\* the row's metrics, each null where the field it depends on is missing or null;
\* num_prs is the length of the entries sequence where the total is missing, and null
\* or that length where the total is null
MissingReadAsAbsent(data, row) ==
    /\ data.total_prs.k = "absent" => row.num_prs = JInt(Len(EntriesOf(data)))
    /\ data.total_prs.k = "null" => row.num_prs \in {JNullInt, JInt(Len(EntriesOf(data)))}
    /\ data.total_prs.k = "int" => row.num_prs = data.total_prs
    /\ (EntriesOf(data) = <<>> \/ LastEstimate(data).k /= "int")
           => ~row.estimated_clear_time_minutes.some
    /\ ~TopStarted(data) => ~row.top_job_ci_runtime_minutes.some

\* C12: whichever optional field of the snapshot is missing or null (total_prs, entries,
\* an entry's estimate, an entry's ci_status, its ci_started_at), extraction does not
\* fail: the row is produced, with the dependent metric null, or num_prs falling back to
\* the number of entries.
C12_ToleratesMissingOrNull ==
    (RowAttempted /\ PresentValuesUsable(files[1]))
        => /\ Len(rows) = 1
           /\ MissingReadAsAbsent(files[1], rows[1])

\* the fields whose null the code does not read as absent: entries (len(None) raises)
\* and the first entry's ci_status (None.get raises)
NullNotTolerated(data) ==
    \/ data.entries.k = "null"
    \/ EntriesOf(data) /= <<>> /\ EntriesOf(data)[1].ci_status.k = "null"

\* C12 holds of every snapshot outside these two nulls: a missing key of any optional
\* field and a null total_prs, estimate or ci_started_at are tolerated as stated.  A null
\* entries or a null ci_status of the first entry leaves no row.
C12_ExceptNullContainers ==
    (RowAttempted /\ PresentValuesUsable(files[1]))
        => IF NullNotTolerated(files[1]) THEN rows = <<>>
           ELSE Len(rows) = 1 /\ MissingReadAsAbsent(files[1], rows[1])

\* the MetricRow bounds: num_prs an integer >= 0, both metrics null or >= 0
WithinBounds(row) ==
    /\ row.num_prs.k = "int"
    /\ row.num_prs.v >= 0
    /\ row.estimated_clear_time_minutes.some => ~NumNegative(row.estimated_clear_time_minutes)
    /\ row.top_job_ci_runtime_minutes.some => ~NumNegative(row.top_job_ci_runtime_minutes)

\* C13: every emitted row is within the MetricRow bounds, whatever the snapshot: num_prs
\* is an integer >= 0, estimated_clear_time_minutes and top_job_ci_runtime_minutes are
\* each null or >= 0.
C13_RowWithinBounds == RowEmitted => WithinBounds(rows[1])

\* C13 holds of every snapshot whose total_prs is not null; a null total_prs is copied
\* into the row as num_prs, and the summary's sum over num_prs then raises
C13_ExceptNullTotal ==
    RowEmitted =>
        IF files[1].total_prs.k = "null"
        THEN rows[1].num_prs = JNullInt /\ pc /= "done"
        ELSE WithinBounds(rows[1])

-----------------------------------------------------------------------------
(* Time-Series Assembler (generate_csv)                                    *)

\* the rows of the files whose extraction succeeds, in the order of the files
RECURSIVE Extracted(_)
Extracted(fs) ==
    IF fs = <<>> THEN <<>>
    ELSE Extracted(SubSeq(fs, 1, Len(fs) - 1))
         \o (IF process_json_file(fs[Len(fs)]) = <<>> THEN <<>>
             ELSE <<process_json_file(fs[Len(fs)])[1]>>)

\* C6: the rows are one per snapshot whose extraction succeeded, in the order of the
\* input; a failed snapshot leaves no row and no placeholder; these rows are written.
C6_OneRowPerExtracted ==
    /\ rows = Extracted(SubSeq(files, 1, idx))
    /\ pc \in {"done", "raised"} => csv_file = Extracted(files)

\* C6 witness: three snapshots, the second with a malformed timestamp, give two
\* different rows, the first snapshot's and then the third's
C6_Witness ==
    /\ pc = "done"
    /\ Len(files) = 3
    /\ files[2].timestamp = JStr(NotADate)
    /\ Len(csv_file) = 2
    /\ <<csv_file[1]>> = process_json_file(files[1])
    /\ <<csv_file[2]>> = process_json_file(files[3])
    /\ csv_file[1] /= csv_file[2]

\* fromisoformat rejects the string of the field
Unparseable(field) == field.k = "str" /\ ~Instant(field.v).ok

\* an unparseable timestamp anywhere in the snapshot
UnparseableAnywhere(data) ==
    \/ Unparseable(data.timestamp)
    \/ \E i \in 1..Len(EntriesOf(data)) :
          \/ Unparseable(EntriesOf(data)[i].enqueued_at)
          \/ Unparseable(EntriesOf(data)[i].ci_status.ci_started_at)
          \/ \E c \in 1..Len(EntriesOf(data)[i].ci_status.checks) :
                \/ Unparseable(EntriesOf(data)[i].ci_status.checks[c].started_at)
                \/ Unparseable(EntriesOf(data)[i].ci_status.checks[c].completed_at)

\* an unparseable observation timestamp or ci_started_at of the first stored entry
UnparseableWhereParsed(data) ==
    \/ Unparseable(data.timestamp)
    \/ TopStarted(data) /\ Unparseable(EntriesOf(data)[1].ci_status.ci_started_at)

Processed(P(_)) == Cardinality({i \in 1..idx : P(files[i])})

\* C7 as stated: a snapshot with an unparseable timestamp anywhere (observation,
\* enqueued-at, a check's start or completion) gets no row, so the rows are at most the
\* processed snapshots that have none.
C7_AnywhereAborts ==
    LET Clean(data) == ~UnparseableAnywhere(data)
    IN  Len(rows) <= Processed(Clean)

\* C7 as amended: an unparseable observation timestamp or ci_started_at of the first
\* entry aborts that snapshot's row and no other; unparseable timestamps elsewhere are
\* not read and the row is produced; the loop ends only when every file was processed.
C7_ParsedFieldsAbort ==
    LET Kept(data) == ~UnparseableWhereParsed(data)
    IN  /\ Len(rows) = Processed(Kept)
        /\ pc /= "loop" => idx = Len(files)

\* C7 witness: a batch of an unparseable observation timestamp, then a snapshot whose only
\* unparseable timestamp is an enqueued-at, then a well-formed one: two rows
C7_Witness ==
    /\ pc = "done"
    /\ Len(files) = 3
    /\ Unparseable(files[1].timestamp)
    /\ ~Unparseable(files[2].timestamp)
    /\ EntriesOf(files[2]) /= <<>>
    /\ Unparseable(EntriesOf(files[2])[1].enqueued_at)
    /\ ~UnparseableAnywhere(files[3])
    /\ Len(rows) = 2

NonNull(f) == {i \in 1..Len(rows) : rows[i][f].some}

RECURSIVE Total(_, _)
Total(f, S) ==
    IF S = {} THEN IntNum(0)
    ELSE LET i == CHOOSE j \in S : TRUE IN AddNum(rows[i][f], Total(f, S \ {i}))

\* avg is a number: the mean of the non-null values of column f, or 0 when there are none
MeanOfNonNull(avg, f) ==
    /\ avg.some
    /\ avg.den > 0
    /\ IF NonNull(f) = {} THEN avg.n = 0 /\ avg.us = 0
       ELSE NumEq(avg, DivNum(Total(f, NonNull(f)), Cardinality(NonNull(f))))

\* C8: in the summary the means of estimated_clear_minutes and of
\* top_job_ci_runtime_minutes are over the non-null values only, and a mean over no
\* value is 0, never null or a division by zero.
C8_MeansOverNonNull ==
    pc = "done" =>
        /\ stats.printed
        /\ MeanOfNonNull(stats.avg_clear_time, "estimated_clear_time_minutes")
        /\ MeanOfNonNull(stats.avg_ci_runtime, "top_job_ci_runtime_minutes")

\* C8 witness: a summary over three rows none of which has an estimate, so that the
\* mean clear time is 0, and of which two have a runtime of 30 minutes and one has none,
\* so that the mean runtime is 30
C8_Witness ==
    /\ pc = "done"
    /\ Len(rows) = 3
    /\ NonNull("estimated_clear_time_minutes") = {}
    /\ stats.avg_clear_time = IntNum(0)
    /\ Cardinality(NonNull("top_job_ci_runtime_minutes")) = 2
    /\ NumEq(stats.avg_ci_runtime, IntNum(30))

-----------------------------------------------------------------------------
(* Poll, then report (export_to_json, then generate_csv)                   *)

\* the run of export_to_json wrote its file and generate_csv has processed it
ExportedAndProcessed == polls /= <<>> /\ polls[1].written /\ idx = Len(files)

\* C14: every snapshot that export_to_json writes is extracted by process_json_file
\* into a row and never dropped, whatever the digits of the observation time and whether
\* or not the top entry has a started check.
C14_ExportedNeverDropped == ExportedAndProcessed => Len(rows) = Len(files)

\* The snapshots dropped are those whose top entry has a started check and whose
\* zone-less observation timestamp ends in "00" (a whole second at :00, or microseconds
\* that end in 00): parse_timestamp returns it naive, as in C1, and subtracting the
\* aware start from it raises.  Every other exported snapshot gets its row.
C14_DroppedWhenReadNaive ==
    ExportedAndProcessed =>
        (rows = <<>> <=> /\ TopStarted(files[1])
                         /\ EndsWith(files[1].timestamp.v, <<"0", "0">>)
                         /\ ~parse_timestamp(files[1].timestamp.v).aware)

\* the fetch failed: the request raised, the HTTP status was an error, or the body
\* carries GraphQL errors
FetchFailed(response) ==
    \/ response.kind \in {"exception", "http_error"}
    \/ response.kind = "body" /\ response.errors

\* C15: a run of export_to_json whose fetch failed still writes its snapshot, with
\* total_prs = 0 and no entries; in every snapshot written total_prs is the number of
\* entries written, and after a fetch that succeeded the entries are the fetched ones in
\* the order of the response.
C15_FailedFetchWritesEmpty ==
    (polls /= <<>> /\ polls[1].written) =>
        LET response == polls[1].response
        IN  /\ Len(files) = 1
            /\ files[1].entries.k = "list"
            /\ files[1].total_prs = JInt(Len(files[1].entries.v))
            /\ FetchFailed(response) =>
                   files[1].total_prs = JInt(0) /\ files[1].entries.v = <<>>
            /\ (~FetchFailed(response) /\ response.queue = "obj") =>
                   /\ Len(files[1].entries.v) = Len(response.nodes)
                   /\ \A j \in 1..Len(response.nodes) :
                          /\ files[1].entries.v[j].position = response.nodes[j].position
                          /\ files[1].entries.v[j].estimated_time_to_merge_seconds
                                 = response.nodes[j].estimatedTimeToMerge

\* C15 witness: a body that carries errors beside an entry, written as a snapshot of
\* total_prs 0 without entries, which the report turns into a row of num_prs 0
C15_Witness ==
    /\ polls /= <<>>
    /\ polls[1].written
    /\ polls[1].response.kind = "body"
    /\ polls[1].response.errors
    /\ polls[1].response.nodes /= <<>>
    /\ files[1].total_prs = JInt(0)
    /\ files[1].entries = List(<<>>)
    /\ pc = "done"
    /\ rows[1].num_prs = JInt(0)

\* C15 witness of the order: two entries fetched with position 2 before position 1 and
\* written in that order, total_prs 2
C15_WitnessOrder ==
    /\ polls /= <<>>
    /\ polls[1].written
    /\ ~FetchFailed(polls[1].response)
    /\ Len(polls[1].response.nodes) = 2
    /\ polls[1].response.nodes[1].position = 2
    /\ files[1].total_prs = JInt(2)
    /\ files[1].entries.v[1].position = 2
    /\ files[1].entries.v[2].position = 1

====
